---------------------------- MODULE Spec2Model ----------------------------
(***************************************************************************)
(* A model of the AI Interview Simulator (src/app.py): the Streamlit       *)
(* session state, one action per script run of main() for each user event, *)
(* the InterviewTimer, and GeminiClient.generate_questions with its JSON   *)
(* decode / line-scan / fallback-pool chain.                               *)
(*                                                                         *)
(* Texts (Python str) are sequences of characters, each character a        *)
(* one-character string.  The long literal strings of the program (the     *)
(* twelve fallback questions, the placeholders, the skip sentinel) are     *)
(* written as one-element sequences holding the literal's opening words.   *)
(***************************************************************************)
EXTENDS Integers, Sequences, FiniteSets, TLC

(***************************************************************************)
(* Bounds of the model.                                                    *)
(***************************************************************************)
\* how many of the four duration options (in list order) the user is offered
MaxOption == 1
\* how many times the clock advances in one behaviour
MaxTicks == 2
\* how many resets (of any of the three kinds) occur in one behaviour
MaxResets == 1
\* clock resolution: time stamps count units of 1/Resolution second
Resolution == 2

(***************************************************************************)
(* Python str helpers.                                                     *)
(***************************************************************************)
Whitespace == {" ", "\n"}

RECURSIVE LStrip(_)
LStrip(s) ==
    IF s # <<>> /\ Head(s) \in Whitespace THEN LStrip(Tail(s)) ELSE s

RECURSIVE RStrip(_)
RStrip(s) ==
    IF s # <<>> /\ s[Len(s)] \in Whitespace
    THEN RStrip(SubSeq(s, 1, Len(s) - 1))
    ELSE s

\* str.strip()
Strip(s) == RStrip(LStrip(s))

\* str.startswith(p)
StartsWith(s, p) == Len(s) >= Len(p) /\ SubSeq(s, 1, Len(p)) = p

\* str.endswith(p)
EndsWith(s, p) ==
    Len(s) >= Len(p) /\ SubSeq(s, Len(s) - Len(p) + 1, Len(s)) = p

\* str.find(c) for a one-character c, as a 1-based position; 0 when absent
\* (Python's 0-based find() is this value minus 1, so -1 when absent)
Find(s, c) ==
    IF \E i \in 1..Len(s) : s[i] = c
    THEN CHOOSE i \in 1..Len(s) : s[i] = c /\ \A j \in 1..(i - 1) : s[j] # c
    ELSE 0

\* str.rfind(c), 1-based; 0 when absent
RFind(s, c) ==
    IF \E i \in 1..Len(s) : s[i] = c
    THEN CHOOSE i \in 1..Len(s) : s[i] = c /\ \A j \in (i + 1)..Len(s) : s[j] # c
    ELSE 0

\* str.split('\n'): always at least one piece
RECURSIVE Split(_)
Split(s) ==
    LET i == Find(s, "\n")
    IN  IF i = 0 THEN <<s>>
        ELSE <<SubSeq(s, 1, i - 1)>> \o Split(SubSeq(s, i + 1, Len(s)))

\* '\n'.join(lines)
RECURSIVE Join(_)
Join(lines) ==
    IF lines = <<>> THEN <<>>
    ELSE IF Len(lines) = 1 THEN lines[1]
    ELSE lines[1] \o <<"\n">> \o Join(Tail(lines))

DigitChars == <<"0", "1", "2", "3", "4", "5", "6", "7", "8", "9">>

\* f'{n}' for a natural number n
RECURSIVE Decimal(_)
Decimal(n) ==
    IF n < 10 THEN <<DigitChars[n + 1]>>
    ELSE Decimal(n \div 10) \o <<DigitChars[(n % 10) + 1]>>

(***************************************************************************)
(* json.loads, for texts over an alphabet without the letters of the JSON  *)
(* literals, braces, backslash or exponent marks: a value is a string, a   *)
(* number or an array.  Decoded values are tagged: [t |-> "str", v |->     *)
(* text], [t |-> "num", v |-> literal], [t |-> "list", v |-> items].       *)
(***************************************************************************)
JStr(s) == [t |-> "str", v |-> s]
JNum(s) == [t |-> "num", v |-> s]
JList(items) == [t |-> "list", v |-> items]

JsonFail == [ok |-> FALSE, val |-> JList(<<>>), end |-> 0]
JsonOk(value, next) == [ok |-> TRUE, val |-> value, end |-> next]

Digits == {"0", "1", "2", "3", "4", "5", "6", "7", "8", "9"}

\* WHITESPACE.match(s, i).end(): first position at or after i that holds no
\* JSON whitespace
RECURSIVE SkipWs(_, _)
SkipWs(s, i) ==
    IF i <= Len(s) /\ s[i] \in Whitespace THEN SkipWs(s, i + 1) ELSE i

\* first position at or after i that holds no digit
RECURSIVE SkipDigits(_, _)
SkipDigits(s, i) ==
    IF i <= Len(s) /\ s[i] \in Digits THEN SkipDigits(s, i + 1) ELSE i

\* scanstring(s, i, strict=True): i is the position after the opening quote
RECURSIVE ScanString(_, _, _)
ScanString(s, i, from) ==
    IF i > Len(s) THEN JsonFail
    ELSE IF s[i] = "\"" THEN JsonOk(JStr(SubSeq(s, from, i - 1)), i + 1)
    ELSE IF s[i] = "\n" THEN JsonFail
    ELSE ScanString(s, i + 1, from)

\* NUMBER_RE.match(s, i): (-?(?:0|[1-9][0-9]*))(\.[0-9]+)?
MatchNumber(s, i) ==
    LET d == IF i <= Len(s) /\ s[i] = "-" THEN i + 1 ELSE i
        e == IF d <= Len(s) /\ s[d] = "0" THEN d + 1 ELSE SkipDigits(s, d)
        f == IF e + 1 <= Len(s) /\ s[e] = "." /\ s[e + 1] \in Digits
             THEN SkipDigits(s, e + 1)
             ELSE e
    IN  IF e = d THEN JsonFail ELSE JsonOk(JNum(SubSeq(s, i, f - 1)), f)

RECURSIVE ScanOnce(_, _)
RECURSIVE ArrayLoop(_, _, _)

\* JSONArray(s, i): i is the position after the opening bracket
JSONArray(s, i) ==
    LET e == SkipWs(s, i)
    IN  IF e <= Len(s) /\ s[e] = "]" THEN JsonOk(JList(<<>>), e + 1)
        ELSE ArrayLoop(s, e, <<>>)

ArrayLoop(s, i, values) ==
    LET r == ScanOnce(s, i)
        e == SkipWs(s, r.end)
    IN  IF ~r.ok THEN JsonFail
        ELSE IF e > Len(s) THEN JsonFail
        ELSE IF s[e] = "]" THEN JsonOk(JList(Append(values, r.val)), e + 1)
        ELSE IF s[e] # "," THEN JsonFail
        ELSE ArrayLoop(s, SkipWs(s, e + 1), Append(values, r.val))

\* scan_once(s, i)
ScanOnce(s, i) ==
    IF i > Len(s) THEN JsonFail
    ELSE IF s[i] = "\"" THEN ScanString(s, i + 1, i + 1)
    ELSE IF s[i] = "[" THEN JSONArray(s, i + 1)
    ELSE MatchNumber(s, i)

\* json.loads(s): ok = FALSE stands for JSONDecodeError
JsonLoads(s) ==
    LET r == ScanOnce(s, SkipWs(s, 1))
    IN  IF r.ok /\ SkipWs(s, r.end) = Len(s) + 1 THEN r ELSE JsonFail

(***************************************************************************)
(* GeminiClient: the fallback pool and generate_questions.                 *)
(***************************************************************************)
Min(a, b) == IF a <= b THEN a ELSE b

Max(a, b) == IF a >= b THEN a ELSE b

\* seq[:n] for n >= 0
Take(seq, n) == SubSeq(seq, 1, Min(n, Len(seq)))

\* the list fallback_questions, in its order
fallback_questions ==
    << JStr(<<"Tell me about a time when you had to lead a team">>),
       JStr(<<"Describe a situation where you had to solve a complex problem">>),
       JStr(<<"Can you share an example of when you had to work with a difficult team member">>),
       JStr(<<"Tell me about a time when you had to adapt quickly">>),
       JStr(<<"Describe a situation where you made a mistake">>),
       JStr(<<"Give me an example of when you had to influence others">>),
       JStr(<<"Tell me about a time when you had to work under tight deadlines">>),
       JStr(<<"Describe a situation where you had to learn a new skill quickly">>),
       JStr(<<"Can you share an example of when you had to give difficult feedback">>),
       JStr(<<"Tell me about a time when you had to make a decision with incomplete information">>),
       JStr(<<"Describe a situation where you had to manage competing priorities">>),
       JStr(<<"Give me an example of when you went above and beyond">>) >>

\* GeminiClient._get_fallback_questions
get_fallback_questions(num_questions) == Take(fallback_questions, num_questions)

\* the backtick character (a TLA+ string cannot hold one)
Backtick == "^"

\* the removal of a markdown fence: the first and the last line are dropped
\* when the text opens with three backticks and has more than two lines
StripFence(questions_text) ==
    LET lines == Split(questions_text)
    IN  IF StartsWith(questions_text, <<Backtick, Backtick, Backtick>>)
           /\ Len(lines) > 2
        THEN Join(SubSeq(lines, 2, Len(lines) - 1))
        ELSE questions_text

\* the body of the loop with a numbered line accepted whatever its numeral
ScanLineAnyNumeral(questions, raw_line) ==
    LET line == Strip(raw_line)
        n == Len(line)
        dot == SkipDigits(line, 1)
    IN  IF StartsWith(line, <<"\"">>) /\ EndsWith(line, <<"\"", ",">>)
        THEN Append(questions, JStr(SubSeq(line, 2, n - 2)))
        ELSE IF StartsWith(line, <<"\"">>) /\ EndsWith(line, <<"\"">>)
        THEN Append(questions, JStr(SubSeq(line, 2, n - 1)))
        ELSE IF StartsWith(line, <<"-", " ">>)
        THEN Append(questions, JStr(SubSeq(line, 3, n)))
        ELSE IF dot > 1 /\ dot <= n /\ line[dot] = "."
        THEN Append(questions, JStr(Strip(SubSeq(line, dot + 1, n))))
        ELSE questions

\* the body of the loop over the lines: what one line adds to questions
ScanLine(questions, raw_line) ==
    LET line == Strip(raw_line)
        n == Len(line)
        numeral == Decimal(Len(questions) + 1) \o <<".">>
    IN  IF StartsWith(line, <<"\"">>) /\ EndsWith(line, <<"\"", ",">>)
        THEN Append(questions, JStr(SubSeq(line, 2, n - 2)))
        ELSE IF StartsWith(line, <<"\"">>) /\ EndsWith(line, <<"\"">>)
        THEN Append(questions, JStr(SubSeq(line, 2, n - 1)))
        ELSE IF StartsWith(line, <<"-", " ">>)
        THEN Append(questions, JStr(SubSeq(line, 3, n)))
        ELSE IF StartsWith(line, numeral)
        THEN Append(questions, JStr(Strip(SubSeq(line, Len(numeral) + 1, n))))
        ELSE questions

\* the loop over the lines, in order
RECURSIVE ScanLines(_, _)
ScanLines(questions, lines) ==
    IF lines = <<>> THEN questions
    ELSE ScanLines(ScanLine(questions, Head(lines)), Tail(lines))

\* the scan of the lines without the padding from the fallback questions
LineHeuristicUnpadded(questions_text, num_questions) ==
    Take(ScanLines(<<>>, Split(questions_text)), num_questions)

\* the end of the scan without the truncation
PadScannedUncut(questions, num_questions) ==
    IF Len(questions) < num_questions
    THEN questions \o get_fallback_questions(num_questions - Len(questions))
    ELSE questions

\* the end of the scan without the padding
PadScannedNoPool(questions, num_questions) == Take(questions, num_questions)

\* what follows the loop over the lines: the padding from the fallback
\* questions when fewer lines were accepted than asked, then the truncation
PadScanned(questions, num_questions) ==
    Take(IF Len(questions) < num_questions
         THEN questions \o
              get_fallback_questions(num_questions - Len(questions))
         ELSE questions,
         num_questions)

\* the "enhanced fallback parsing" path, with its padding and truncation
LineHeuristic(questions_text, num_questions) ==
    PadScanned(ScanLines(<<>>, Split(questions_text)), num_questions)

\* the text between the first "[" and the last "]" and whether there is one
JsonSlice(questions_text) ==
    LET start_idx == Find(questions_text, "[")
        end_idx == RFind(questions_text, "]")
        found == start_idx # 0 /\ end_idx >= start_idx
    IN  [found |-> found,
         json_text |-> IF found
                       THEN SubSeq(questions_text, start_idx, end_idx)
                       ELSE <<>>]

\* the branch of a decoded list without the truncation
FromDecodedWhole(questions, num_questions) ==
    IF Len(questions) >= num_questions
    THEN questions
    ELSE questions \o get_fallback_questions(num_questions - Len(questions))

\* the branch of a decoded list with the padding put first
FromDecodedPoolFirst(questions, num_questions) ==
    IF Len(questions) >= num_questions
    THEN Take(questions, num_questions)
    ELSE get_fallback_questions(num_questions - Len(questions)) \o questions

\* the branch of a decoded list: its first items, or all of it and padding
FromDecoded(questions, num_questions) ==
    IF Len(questions) >= num_questions
    THEN Take(questions, num_questions)
    ELSE questions \o get_fallback_questions(num_questions - Len(questions))

\* the choice between the decoded list and the scan of the lines; decoded
\* is what json.loads did with the text between the brackets
DecodedOrScanned(questions_text, decoded, num_questions) ==
    IF decoded.ok
    THEN FromDecoded(decoded.val.v, num_questions)
    ELSE LineHeuristic(questions_text, num_questions)

\* the search for a JSON array in the cleaned text
ExtractQuestions(questions_text, slice, num_questions) ==
    IF slice.found
    THEN DecodedOrScanned(questions_text, JsonLoads(slice.json_text),
                          num_questions)
    ELSE LineHeuristic(questions_text, num_questions)

\* the cleaned text: stripped twice, then without its markdown fence
CleanText(text) == StripFence(Strip(Strip(text)))

\* the parsing of the cleaned text
ParseCleaned(questions_text, num_questions) ==
    ExtractQuestions(questions_text, JsonSlice(questions_text), num_questions)

\* what the try block returns for a response text
ParseQuestions(text, num_questions) ==
    ParseCleaned(CleanText(text), num_questions)

\* generate_questions with the except branch returning no question
generate_questions_no_fallback(reply, num_questions) ==
    IF reply.raised THEN <<>> ELSE ParseQuestions(reply.text, num_questions)

\* GeminiClient.generate_questions: reply is what generate_content did,
\* [raised |-> TRUE] for an exception, else the text of the response
generate_questions(reply, num_questions) ==
    IF reply.raised
    THEN get_fallback_questions(num_questions)
    ELSE ParseQuestions(reply.text, num_questions)

\* GeminiClient.generate_individual_feedback
generate_individual_feedback(reply) ==
    IF reply.raised
    THEN <<"Unable to generate detailed feedback for this question.">>
    ELSE Strip(reply.text)

\* GeminiClient.generate_overall_feedback
generate_overall_feedback(reply) ==
    IF reply.raised
    THEN <<"Error generating comprehensive feedback: ">> \o reply.text
    ELSE Strip(reply.text)

(***************************************************************************)
(* FileProcessor.                                                          *)
(***************************************************************************)
\* max_size in validate_file: 10MB in bytes
max_size == 10 * 1024 * 1024

allowed_extensions == {".pdf", ".doc", ".docx", ".txt"}

\* FileProcessor.validate_file, for a file that was uploaded
validate_file(uploaded_file) ==
    uploaded_file.size <= max_size
    /\ uploaded_file.extension \in allowed_extensions

\* the least number of characters of a resume
MinResumeLen == 50

\* process_resume_file with the length test on the text as read
process_resume_file_unstripped(uploaded_file, extraction) ==
    IF ~validate_file(uploaded_file) THEN [success |-> FALSE, result |-> <<>>]
    ELSE IF extraction.raised THEN [success |-> FALSE, result |-> <<>>]
    ELSE IF Len(extraction.text) < MinResumeLen
    THEN [success |-> FALSE, result |-> <<>>]
    ELSE [success |-> TRUE, result |-> Strip(extraction.text)]

\* FileProcessor.process_resume_file: extraction is what the extractor for the
\* file's extension did, [raised |-> TRUE] for an exception, else the raw
\* text it read, which every extractor strips before it returns it
process_resume_file(uploaded_file, extraction) ==
    LET text == Strip(extraction.text)
    IN  IF ~validate_file(uploaded_file) THEN [success |-> FALSE, result |-> <<>>]
        ELSE IF extraction.raised THEN [success |-> FALSE, result |-> <<>>]
        ELSE IF Len(Strip(text)) < MinResumeLen
        THEN [success |-> FALSE, result |-> <<>>]
        ELSE [success |-> TRUE, result |-> text]

(***************************************************************************)
(* InterviewTimer.  Time stamps count units of 1/Resolution second from    *)
(* the start of the behaviour; NoTime stands for None.                     *)
(***************************************************************************)
NoTime == -1

\* a timer that counts from clock value 0 whenever it is made
InterviewTimerFromZero(duration_minutes) ==
    [duration_seconds |-> duration_minutes * 60,
     start_time |-> 0,
     question_start_time |-> NoTime]

\* InterviewTimer.__init__
InterviewTimer(duration_minutes) ==
    [duration_seconds |-> duration_minutes * 60,
     start_time |-> NoTime,
     question_start_time |-> NoTime]

\* InterviewTimer.start_interview
start_interview(timer, t) == [timer EXCEPT !.start_time = t]

\* InterviewTimer.start_question
start_question(timer, t) == [timer EXCEPT !.question_start_time = t]

\* get_remaining_time without the lower limit of 0
get_remaining_time_unclamped(timer, t) ==
    IF timer.start_time = NoTime THEN timer.duration_seconds
    ELSE (timer.duration_seconds * Resolution - (t - timer.start_time))
         \div Resolution

\* InterviewTimer.get_remaining_time at clock value t: int() drops the
\* fraction of a second
get_remaining_time(timer, t) ==
    IF timer.start_time = NoTime THEN timer.duration_seconds
    ELSE Max(0, timer.duration_seconds * Resolution - (t - timer.start_time))
         \div Resolution

(***************************************************************************)
(* st.session_state: a function from the keys that are present to their    *)
(* values.  None is [none |-> TRUE] for the timer, NoTime for a time       *)
(* stamp, 0 for the client handle; {} is the function with no key.         *)
(***************************************************************************)
None == [none |-> TRUE]

IsNone(x) == "none" \in DOMAIN x

EmptyDict == [k \in {} |-> <<>>]

\* the dictionary defaults of initialize_session_state
defaults ==
    [stage |-> "upload",
     resume_text |-> <<>>,
     job_details |-> EmptyDict,
     interview_duration |-> 15,
     num_questions |-> 3,
     questions |-> <<>>,
     current_question_idx |-> 0,
     conversation |-> <<>>,
     question_responses |-> <<>>,
     individual_feedback |-> <<>>,
     overall_feedback |-> <<>>,
     interview_completed |-> FALSE,
     timer |-> None,
     question_timer_start |-> NoTime,
     gemini_client |-> 0,
     duration_selected |-> FALSE]

\* del st.session_state[key] for every key of keys that is present
DelKeys(s, keys) == [k \in (DOMAIN s) \ keys |-> s[k]]

\* st.session_state[key] = value
SetKey(s, key, value) ==
    [k \in (DOMAIN s) \cup {key} |-> IF k = key THEN value ELSE s[k]]

\* initialize_session_state: a missing key gets its default; a client is
\* constructed (its handle is new_client) when there is none.  GeminiClient()
\* is taken to succeed: with no API key it ends the script run by st.stop()
\* before anything is rendered
initialize_session_state(s, new_client) ==
    LET filled == [k \in (DOMAIN defaults) \cup (DOMAIN s) |->
                      IF k \in DOMAIN s THEN s[k] ELSE defaults[k]]
    IN  IF filled.gemini_client = 0
        THEN [filled EXCEPT !.gemini_client = new_client]
        ELSE filled

\* the list duration_options of render_details_stage
duration_options ==
    << [duration |-> 15, questions |-> 3],
       [duration |-> 30, questions |-> 6],
       [duration |-> 45, questions |-> 9],
       [duration |-> 60, questions |-> 12] >>

(***************************************************************************)
(* The stage renderers.  Each takes the session state s at the start of    *)
(* the render, the user event ev the script run carries (ev.kind, and the  *)
(* inputs of that kind: widget values and what the external services did   *)
(* when called in this run) and gives the session state at the end of the  *)
(* run, whether the run ended in st.rerun(), whether the file_uploader and  *)
(* the Continue button were rendered, and how often                        *)
(* generate_overall_feedback was called.                                   *)
(***************************************************************************)
Outcome(s, rerun_called) ==
    [s |-> s, rerun |-> rerun_called, uploader |-> FALSE, shown |-> FALSE,
     scored |-> 0]

\* render_upload_stage: the branch of a successfully processed file p
ResumeAccepted(s, ev, p) ==
    IF ev.kind = "continue"
    THEN [s |-> [s EXCEPT !.resume_text = p.result, !.stage = "details"],
          rerun |-> TRUE, uploader |-> TRUE, shown |-> TRUE, scored |-> 0]
    ELSE [s |-> [s EXCEPT !.resume_text = p.result],
          rerun |-> FALSE, uploader |-> TRUE, shown |-> TRUE, scored |-> 0]

\* render_upload_stage: a file is in the file_uploader, p is what
\* process_resume_file returned for it
ResumeProcessed(s, ev, p) ==
    IF p.success THEN ResumeAccepted(s, ev, p)
    ELSE [Outcome(s, FALSE) EXCEPT !.uploader = TRUE]

\* render_upload_stage
render_upload_stage(s, ev, uploaded_file) ==
    IF IsNone(uploaded_file)
    THEN [Outcome(s, FALSE) EXCEPT !.uploader = TRUE]
    ELSE ResumeProcessed(s, ev,
                         process_resume_file(uploaded_file, ev.extraction))

\* render_details_stage: a duration button
SelectDuration(s, option) ==
    [s EXCEPT !.interview_duration = option.duration,
              !.num_questions = option.questions,
              !.duration_selected = TRUE]

\* render_details_stage: the dictionary job_details built from the form
JobDetails(s, ev) ==
    [job_title |-> ev.job_title,
     company_name |-> ev.company_name,
     job_description |-> ev.job_description,
     experience_years |-> ev.experience_years,
     industry |-> ev.industry,
     duration |-> s.interview_duration]

\* render_details_stage: the form was submitted and passed both checks
StartInterview(s, ev) ==
    [s EXCEPT !.job_details = JobDetails(s, ev),
              !.questions = generate_questions(ev.reply, s.num_questions),
              !.timer = InterviewTimer(s.interview_duration),
              !.stage = "interview"]

\* render_details_stage without the test of the duration selection
render_details_stage_any_duration(s, ev) ==
    IF ev.kind = "select"
    THEN Outcome(SelectDuration(s, duration_options[ev.option]), TRUE)
    ELSE IF ev.kind = "details"
    THEN IF ev.job_title = <<>> \/ ev.company_name = <<>>
            \/ ev.job_description = <<>>
         THEN Outcome(s, FALSE)
         ELSE Outcome(StartInterview(s, ev), TRUE)
    ELSE Outcome(s, FALSE)

\* render_details_stage with the job description left out of the test of
\* the required fields
render_details_stage_two_fields(s, ev) ==
    IF ev.kind = "select"
    THEN Outcome(SelectDuration(s, duration_options[ev.option]), TRUE)
    ELSE IF ev.kind = "details"
    THEN IF ev.job_title = <<>> \/ ev.company_name = <<>>
         THEN Outcome(s, FALSE)
         ELSE IF ~s.duration_selected THEN Outcome(s, FALSE)
         ELSE Outcome(StartInterview(s, ev), TRUE)
    ELSE Outcome(s, FALSE)

\* render_details_stage
render_details_stage(s, ev) ==
    IF ev.kind = "select"
    THEN Outcome(SelectDuration(s, duration_options[ev.option]), TRUE)
    ELSE IF ev.kind = "details"
    THEN IF ev.job_title = <<>> \/ ev.company_name = <<>>
            \/ ev.job_description = <<>>
         THEN Outcome(s, FALSE)
         ELSE IF ~s.duration_selected THEN Outcome(s, FALSE)
         ELSE Outcome(StartInterview(s, ev), TRUE)
    ELSE Outcome(s, FALSE)

\* the fixed answer of a skipped question
SkipSentinel == <<"[Question Skipped]">>

\* render_interview_stage: the response record of the displayed question
ResponseRecord(s, answer) ==
    [question |-> s.questions[s.current_question_idx + 1],
     answer |-> answer,
     question_number |-> s.current_question_idx + 1]

\* the Skip Question button without the advance to the next question
SkipQuestionNoAdvance(s) ==
    [s EXCEPT !.question_responses = Append(@, ResponseRecord(s, SkipSentinel)),
              !.question_timer_start = NoTime]

\* the Skip Question button with a feedback entry for the skipped question
SkipQuestionScored(s) ==
    [s EXCEPT !.question_responses = Append(@, ResponseRecord(s, SkipSentinel)),
              !.individual_feedback =
                  Append(@, [question_number |-> s.current_question_idx + 1,
                             feedback |-> SkipSentinel]),
              !.current_question_idx = @ + 1,
              !.question_timer_start = NoTime]

\* render_interview_stage: the Skip Question button
SkipQuestion(s) ==
    [s EXCEPT !.question_responses = Append(@, ResponseRecord(s, SkipSentinel)),
              !.current_question_idx = @ + 1,
              !.question_timer_start = NoTime]

\* the Submit Answer button entering the feedback stage after the last
\* question
SubmitAnswerAutoFinish(s, ev) ==
    LET feedback == [question_number |-> s.current_question_idx + 1,
                     feedback |-> generate_individual_feedback(ev.reply)]
        idx == s.current_question_idx + 1
    IN  [s EXCEPT !.question_responses =
                      Append(@, ResponseRecord(s, Strip(ev.text))),
                  !.individual_feedback = Append(@, feedback),
                  !.current_question_idx = idx,
                  !.question_timer_start = NoTime,
                  !.interview_completed =
                      IF idx >= Len(s.questions) THEN TRUE ELSE @,
                  !.stage = IF idx >= Len(s.questions) THEN "feedback" ELSE @]

\* the Submit Answer button with no feedback entry when the service fails
SubmitAnswerDropsFailedFeedback(s, ev) ==
    LET feedback == [question_number |-> s.current_question_idx + 1,
                     feedback |-> generate_individual_feedback(ev.reply)]
        idx == s.current_question_idx + 1
    IN  [s EXCEPT !.question_responses =
                      Append(@, ResponseRecord(s, Strip(ev.text))),
                  !.individual_feedback =
                      IF ev.reply.raised THEN @ ELSE Append(@, feedback),
                  !.current_question_idx = idx,
                  !.question_timer_start = NoTime,
                  !.interview_completed =
                      IF idx >= Len(s.questions) THEN TRUE ELSE @]

\* the Submit Answer button recording the answer as typed
SubmitAnswerUntrimmed(s, ev) ==
    LET feedback == [question_number |-> s.current_question_idx + 1,
                     feedback |-> generate_individual_feedback(ev.reply)]
        idx == s.current_question_idx + 1
    IN  [s EXCEPT !.question_responses = Append(@, ResponseRecord(s, ev.text)),
                  !.individual_feedback = Append(@, feedback),
                  !.current_question_idx = idx,
                  !.question_timer_start = NoTime,
                  !.interview_completed =
                      IF idx >= Len(s.questions) THEN TRUE ELSE @]

\* the Submit Answer button putting the new record in front of the others
SubmitAnswerPrepends(s, ev) ==
    LET feedback == [question_number |-> s.current_question_idx + 1,
                     feedback |-> generate_individual_feedback(ev.reply)]
        idx == s.current_question_idx + 1
    IN  [s EXCEPT !.question_responses =
                      <<ResponseRecord(s, Strip(ev.text))>> \o @,
                  !.individual_feedback = Append(@, feedback),
                  !.current_question_idx = idx,
                  !.question_timer_start = NoTime,
                  !.interview_completed =
                      IF idx >= Len(s.questions) THEN TRUE ELSE @]

\* render_interview_stage: the Submit Answer button with a non-blank answer
SubmitAnswer(s, ev) ==
    LET feedback == [question_number |-> s.current_question_idx + 1,
                     feedback |-> generate_individual_feedback(ev.reply)]
        idx == s.current_question_idx + 1
    IN  [s EXCEPT !.question_responses =
                      Append(@, ResponseRecord(s, Strip(ev.text))),
                  !.individual_feedback = Append(@, feedback),
                  !.current_question_idx = idx,
                  !.question_timer_start = NoTime,
                  !.interview_completed =
                      IF idx >= Len(s.questions) THEN TRUE ELSE @]

\* the Submit Answer branch of a script run that is stopped before
\* current_question_idx is advanced: inside the spinner, with the response
\* recorded (stop = "call"), or at the end of the spinner, with the feedback
\* entry recorded too (stop = "exit")
SubmitAnswerStopped(s, ev, stop) ==
    [s EXCEPT !.question_responses =
                  Append(@, ResponseRecord(s, Strip(ev.text))),
              !.individual_feedback =
                  IF stop = "exit"
                  THEN Append(@, [question_number |->
                                      s.current_question_idx + 1,
                                  feedback |->
                                      generate_individual_feedback(ev.reply)])
                  ELSE @]

\* render_interview_stage: the start of the question timer
StartQuestionTimer(s, t) ==
    IF s.question_timer_start # NoTime THEN s
    ELSE [s EXCEPT !.question_timer_start = t,
                   !.timer = IF IsNone(@) THEN @ ELSE start_question(@, t)]

\* the response form recording whatever was typed, blank or not
ResponseFormAcceptsBlank(s, ev) ==
    IF ev.kind = "skip" THEN Outcome(SkipQuestion(s), TRUE)
    ELSE IF ev.kind = "submit" THEN Outcome(SubmitAnswer(s, ev), TRUE)
    ELSE Outcome(s, FALSE)

\* render_interview_stage: the response form of the displayed question
ResponseForm(s, ev) ==
    IF ev.kind = "skip" THEN Outcome(SkipQuestion(s), TRUE)
    ELSE IF ev.kind = "submit" /\ Strip(ev.text) # <<>>
    THEN Outcome(SubmitAnswer(s, ev), TRUE)
    ELSE Outcome(s, FALSE)

\* render_interview_stage: the branch that displays the current question
QuestionBranch(s, t, ev) == ResponseForm(StartQuestionTimer(s, t), ev)

\* the report button with the failure of the service left to the handler of
\* the button, which shows it and stays on the page
RequestReportPropagating(s, ev) ==
    IF ev.reply.raised THEN s
    ELSE [s EXCEPT !.overall_feedback = generate_overall_feedback(ev.reply),
                   !.stage = "feedback"]

\* render_interview_stage: the report button of the completion branch
RequestReport(s, ev) ==
    [s EXCEPT !.overall_feedback = generate_overall_feedback(ev.reply),
              !.stage = "feedback"]

\* the completion branch without the assignment of interview_completed
CompletionBranchKeepsFlag(s, ev) ==
    IF ev.kind = "report"
    THEN [Outcome(RequestReport(s, ev), TRUE) EXCEPT !.scored = 1]
    ELSE Outcome(s, FALSE)

\* render_interview_stage: the branch taken when no question is left
CompletionBranch(s, ev) ==
    LET done == [s EXCEPT !.interview_completed = TRUE]
    IN  IF ev.kind = "report"
        THEN [Outcome(RequestReport(done, ev), TRUE) EXCEPT !.scored = 1]
        ELSE Outcome(done, FALSE)

\* the start of the interview timer without the test of start_time
StartTimerUnguarded(s, t) ==
    IF ~IsNone(s.timer)
    THEN [s EXCEPT !.timer = start_interview(@, t)]
    ELSE s

\* render_interview_stage: the interview timer is started when it is not
StartTimer(s, t) ==
    IF ~IsNone(s.timer) /\ s.timer.start_time = NoTime
    THEN [s EXCEPT !.timer = start_interview(@, t)]
    ELSE s

\* the deadline test with < in place of <=
DeadlineReachedStrict(s, t) ==
    ~IsNone(s.timer) /\ get_remaining_time(s.timer, t) < 0

\* render_interview_stage: the deadline test on the running timer
DeadlineReached(s, t) ==
    ~IsNone(s.timer) /\ get_remaining_time(s.timer, t) <= 0

\* render_interview_stage: what the deadline branch does
ForceFeedback(s) ==
    [s EXCEPT !.interview_completed = TRUE, !.stage = "feedback"]

\* render_interview_stage: from the timer display on
TimedInterview(s, t, ev) ==
    IF DeadlineReached(s, t) THEN Outcome(ForceFeedback(s), TRUE)
    ELSE IF s.current_question_idx < Len(s.questions)
    THEN QuestionBranch(s, t, ev)
    ELSE CompletionBranch(s, ev)

\* render_interview_stage
render_interview_stage(s, t, ev) ==
    IF s.questions = <<>> THEN Outcome(s, FALSE)
    ELSE TimedInterview(StartTimer(s, t), t, ev)

\* the keys the Practice Again button deletes
PracticeAgainKeys ==
    {"stage", "questions", "current_question_idx", "conversation",
     "question_responses", "individual_feedback", "overall_feedback",
     "interview_completed", "timer", "question_timer_start"}

\* the keys the New Position button deletes
NewPositionKeys ==
    {"stage", "job_details", "interview_duration", "num_questions",
     "questions", "current_question_idx", "conversation",
     "question_responses", "individual_feedback", "overall_feedback",
     "interview_completed", "timer", "question_timer_start",
     "duration_selected"}

\* the Practice Again button without the assignment of the stage
PracticeAgainNoStage(s) == DelKeys(s, PracticeAgainKeys)

\* the Practice Again button with individual_feedback left out of its keys
PracticeAgainKeepsFeedback(s) ==
    SetKey(DelKeys(s, PracticeAgainKeys \ {"individual_feedback"}),
           "stage", "details")

\* the Practice Again button with the timer left out of its keys
PracticeAgainKeepsTimer(s) ==
    SetKey(DelKeys(s, PracticeAgainKeys \ {"timer"}), "stage", "details")

\* render_feedback_stage: the Practice Again button (retry-same-job)
PracticeAgain(s) == SetKey(DelKeys(s, PracticeAgainKeys), "stage", "details")

\* the New Position button with duration_selected left out of its keys
NewPositionKeepsSelection(s) ==
    SetKey(SetKey(SetKey(DelKeys(s, NewPositionKeys \ {"duration_selected"}),
                         "interview_duration", 15),
                  "num_questions", 3),
           "stage", "details")

\* render_feedback_stage: the New Position button
NewPosition(s) ==
    SetKey(SetKey(SetKey(DelKeys(s, NewPositionKeys),
                         "interview_duration", 15),
                  "num_questions", 3),
           "stage", "details")

\* the Start Over button deleting the client with every other key
StartOverAll(s) ==
    SetKey(SetKey(DelKeys(s, DOMAIN s), "interview_duration", 15),
           "num_questions", 3)

\* render_feedback_stage: the Start Over button (full-restart)
StartOver(s) ==
    SetKey(SetKey(DelKeys(s, (DOMAIN s) \ {"gemini_client"}),
                  "interview_duration", 15),
           "num_questions", 3)

\* render_feedback_stage: the Generate Overall Feedback button
GenerateOverall(s, ev) ==
    [s EXCEPT !.overall_feedback = generate_overall_feedback(ev.reply)]

\* render_feedback_stage
render_feedback_stage(s, ev) ==
    IF s.question_responses = <<>> THEN Outcome(s, FALSE)
    ELSE IF ev.kind = "generate" /\ s.overall_feedback = <<>>
    THEN [Outcome(GenerateOverall(s, ev), TRUE) EXCEPT !.scored = 1]
    ELSE IF ev.kind = "practice_again" THEN Outcome(PracticeAgain(s), TRUE)
    ELSE IF ev.kind = "new_position" THEN Outcome(NewPosition(s), TRUE)
    ELSE IF ev.kind = "start_over" THEN Outcome(StartOver(s), TRUE)
    ELSE Outcome(s, FALSE)

\* main: the routing to the renderer of the stage
Route(s, t, ev, uploaded_file) ==
    IF s.stage = "upload" THEN render_upload_stage(s, ev, uploaded_file)
    ELSE IF s.stage = "details" THEN render_details_stage(s, ev)
    ELSE IF s.stage = "interview" THEN render_interview_stage(s, t, ev)
    ELSE IF s.stage = "feedback" THEN render_feedback_stage(s, ev)
    ELSE Outcome(s, FALSE)

\* main: one script run at clock value t
main(s, t, ev, uploaded_file, new_client) ==
    Route(initialize_session_state(s, new_client), t, ev, uploaded_file)

(***************************************************************************)
(* The inputs of the model: what the user can enter and what the external  *)
(* services can do.                                                        *)
(***************************************************************************)
\* a text of n copies of the character c
Repeat(c, n) == [i \in 1..n |-> c]

\* the files the user uploads: one within the size limit, one above it
Files ==
    { [size |-> 1024, extension |-> ".pdf"],
      [size |-> max_size + 1, extension |-> ".txt"] }

\* what an extractor does: it raises, or it reads a text of 49 characters or
\* one of 50 characters, each inside surrounding white space
Extractions ==
    { [raised |-> TRUE, text |-> <<>>],
      [raised |-> FALSE,
       text |-> <<" ", " ">> \o Repeat("r", MinResumeLen - 1) \o <<"\n">>],
      [raised |-> FALSE,
       text |-> <<" ">> \o Repeat("r", MinResumeLen) \o <<"\n">>] }

\* what the user types into a required field of the job details form
FieldTexts == { <<>>, <<"a">> }

\* what the user types as an answer
AnswerTexts == { <<>>, <<" ", "\n">>, <<" ", "a", " ", "b", "\n">> }

\* a response of the service: its text
Said(text) == [raised |-> FALSE, text |-> text]

\* a failure of the service: the message of the exception
Raised(message) == [raised |-> TRUE, text |-> message]

\* what generate_content does for the questions prompt: it raises, it gives
\* a JSON array of four strings, or it gives a numbered list of one item
QuestionReplies ==
    { Raised(<<"e">>),
      Said(<<"[", "\"", "a", "\"", ",", "\"", "b", "\"", ",",
             "\"", "a", "b", "\"", ",", "\"", "b", "a", "\"", "]">>),
      Said(<<"1", ".", " ", "a", "\n", "b">>) }

\* what generate_content does for the prompt of one answer
FeedbackReplies == { Raised(<<"e">>), Said(<<" ", "g", "\n">>) }

\* what generate_content does for the prompt of the whole interview: it
\* raises, it gives a report, or it gives white space only
OverallReplies == { Raised(<<"e">>), Said(<<"r", "\n">>), Said(<<" ">>) }

(***************************************************************************)
(* The state of the model.                                                 *)
(***************************************************************************)
VARIABLES
    ss,              \* st.session_state
    now,             \* the clock, in units of 1/Resolution second
    ticks,           \* how often the clock advanced
    rerun,           \* the last script run ended in st.rerun()
    uploaded_file,   \* the value of the file_uploader widget
    continue_shown,  \* the last script run rendered the Continue button
    event,           \* the event the last script run carried
    score_calls,     \* calls of generate_overall_feedback in this interview
    resets,          \* how many reset buttons were pressed
    clients,         \* how many GeminiClient objects were constructed
    aborts,          \* how many script runs were stopped before their end
    timing,          \* an InterviewTimer on its own, and the clock it reads
    parsing          \* a call of generate_questions on its own, step by step

\* the variables of the session
session_vars ==
    <<ss, now, ticks, rerun, uploaded_file, continue_shown, event,
      score_calls, resets, clients, aborts>>

vars == <<session_vars, timing, parsing>>

\* no timer and no call of generate_questions is followed on its own
Idle == [pc |-> "idle"]

\* the most calls of generate_overall_feedback followed in one interview
MaxScoreCalls == 2

\* the amount by which the clock advances: half the shortest interview
ClockStep == (duration_options[1].duration * 60 * Resolution) \div 2

ResetKinds == {"practice_again", "new_position", "start_over"}

\* an event record of a kind, with no input
Event(kind) == [kind |-> kind, extraction |-> Raised(<<>>)]

\* what the extractor can do in the next script run: it is called when the
\* upload page is rendered with a file in the file_uploader
NextExtractions(file) ==
    IF "stage" \in DOMAIN ss /\ ss.stage = "upload" /\ ~IsNone(file)
    THEN Extractions
    ELSE {Raised(<<>>)}

\* the state after a script run that carried the event ev and ended as r
Commit(r, ev, file) ==
    /\ ss' = r.s
    /\ rerun' = r.rerun
    /\ continue_shown' = r.shown
    /\ uploaded_file' = IF r.uploader THEN file ELSE None
    /\ event' = ev
    /\ score_calls' = IF ev.kind = "details" /\ r.rerun
                      THEN 0
                      ELSE score_calls + r.scored
    /\ resets' = IF ev.kind \in ResetKinds /\ r.rerun
                 THEN resets + 1
                 ELSE resets
    /\ clients' = IF "gemini_client" \notin DOMAIN ss \/ ss.gemini_client = 0
                  THEN clients + 1
                  ELSE clients
    /\ UNCHANGED <<now, ticks, aborts, timing, parsing>>

\* one script run of main() carrying the event ev, the file_uploader
\* holding file
ScriptRun(ev, file) == Commit(main(ss, now, ev, file, clients + 1), ev, file)

\* the session after the first call of initialize_session_state
SessionInit ==
    /\ ss = initialize_session_state(EmptyDict, 1)
    /\ now = 0
    /\ ticks = 0
    /\ rerun = FALSE
    /\ uploaded_file = None
    /\ continue_shown = FALSE
    /\ event = [kind |-> "init"]
    /\ score_calls = 0
    /\ resets = 0
    /\ clients = 1
    /\ aborts = 0

Init == SessionInit /\ timing = Idle /\ parsing = Idle

\* time passes
Tick ==
    /\ ticks < MaxTicks
    /\ now' = now + ClockStep
    /\ ticks' = ticks + 1
    /\ UNCHANGED <<ss, rerun, uploaded_file, continue_shown, event,
                   score_calls, resets, clients, aborts, timing, parsing>>

\* the script run that st.rerun() starts: it carries no event
Rerun ==
    /\ rerun
    /\ \E x \in NextExtractions(uploaded_file) :
           ScriptRun([Event("none") EXCEPT !.extraction = x], uploaded_file)

\* a script run with no event (the user asks for a rerun of the page)
Poll ==
    /\ ~rerun
    /\ \E x \in NextExtractions(uploaded_file) :
           ScriptRun([Event("none") EXCEPT !.extraction = x], uploaded_file)

\* the user puts a file into the file_uploader
UploadFile ==
    /\ ~rerun
    /\ ss.stage = "upload"
    /\ \E f \in Files, x \in Extractions :
           ScriptRun([Event("upload") EXCEPT !.extraction = x], f)

\* the user takes the file out of the file_uploader
RemoveFile ==
    /\ ~rerun
    /\ ss.stage = "upload"
    /\ ~IsNone(uploaded_file)
    /\ ScriptRun(Event("remove"), None)

\* the button Continue to Job Details
ContinueToDetails ==
    /\ ~rerun
    /\ ss.stage = "upload"
    /\ continue_shown
    /\ \E x \in Extractions :
           ScriptRun([Event("continue") EXCEPT !.extraction = x],
                     uploaded_file)

\* one of the duration buttons
ChooseDuration ==
    /\ ~rerun
    /\ ss.stage = "details"
    /\ \E i \in 1..Min(MaxOption, Len(duration_options)) :
           ScriptRun([kind |-> "select", option |-> i], uploaded_file)

\* the button Generate Interview Questions of the job details form
SubmitDetails ==
    /\ ~rerun
    /\ ss.stage = "details"
    /\ \E title \in FieldTexts, company \in FieldTexts,
          description \in FieldTexts, reply \in QuestionReplies :
           ScriptRun([kind |-> "details",
                      job_title |-> title,
                      company_name |-> company,
                      job_description |-> description,
                      experience_years |-> 3,
                      industry |-> <<>>,
                      reply |-> reply],
                     uploaded_file)

\* the response form is on the page
QuestionShown ==
    /\ ~rerun
    /\ ss.stage = "interview"
    /\ ss.questions # <<>>
    /\ ss.current_question_idx < Len(ss.questions)

\* the button Submit Answer
Submit ==
    /\ QuestionShown
    /\ \E text \in AnswerTexts, reply \in FeedbackReplies :
           ScriptRun([kind |-> "submit", text |-> text, reply |-> reply],
                     uploaded_file)

\* the button Skip Question
Skip ==
    /\ QuestionShown
    /\ ScriptRun([kind |-> "skip"], uploaded_file)

\* the button Get My HEARS Feedback Report
GetReport ==
    /\ ~rerun
    /\ ss.stage = "interview"
    /\ ss.questions # <<>>
    /\ ss.current_question_idx >= Len(ss.questions)
    /\ \E reply \in OverallReplies :
           ScriptRun([kind |-> "report", reply |-> reply], uploaded_file)

\* the buttons of the feedback page are on the page
ReportShown ==
    /\ ~rerun
    /\ ss.stage = "feedback"
    /\ ss.question_responses # <<>>

\* the button Generate Overall Feedback
GenerateOverallFeedback ==
    /\ ReportShown
    /\ ss.overall_feedback = <<>>
    /\ score_calls < MaxScoreCalls
    /\ \E reply \in OverallReplies :
           ScriptRun([kind |-> "generate", reply |-> reply], uploaded_file)

\* the button Practice Again
PracticeAgainButton ==
    /\ ReportShown
    /\ resets < MaxResets
    /\ ScriptRun([kind |-> "practice_again"], uploaded_file)

\* the button New Position
NewPositionButton ==
    /\ ReportShown
    /\ resets < MaxResets
    /\ ScriptRun([kind |-> "new_position"], uploaded_file)

\* the button Start Over
StartOverButton ==
    /\ ReportShown
    /\ resets < MaxResets
    /\ ScriptRun([kind |-> "start_over"], uploaded_file)

Next ==
    \/ Tick
    \/ Rerun
    \/ Poll
    \/ UploadFile
    \/ RemoveFile
    \/ ContinueToDetails
    \/ ChooseDuration
    \/ SubmitDetails
    \/ Submit
    \/ Skip
    \/ GetReport
    \/ GenerateOverallFeedback
    \/ PracticeAgainButton
    \/ NewPositionButton
    \/ StartOverButton

Spec == Init /\ [][Next]_vars

(***************************************************************************)
(* The session fields as the program reads them: a key that a reset        *)
(* deleted has, at the next read, the default initialize_session_state     *)
(* gives it.                                                               *)
(***************************************************************************)
Field(key) == IF key \in DOMAIN ss THEN ss[key] ELSE defaults[key]

Stage == Field("stage")

\* the interview timer exists and was started
TimerRunning ==
    ~IsNone(Field("timer")) /\ Field("timer").start_time # NoTime

\* remaining, for a running timer, as a script run at the present clock
\* value computes it
Remaining == get_remaining_time(Field("timer"), now)

(***************************************************************************)
(* The claims.  Spec is the program with every script run running to its   *)
(* end before the next one starts.                                         *)
(***************************************************************************)

\* C1: in every state, 0 <= current_question_idx <= len(questions) and
\* len(question_responses) = current_question_idx.
C1_IndexInvariant ==
    /\ 0 <= Field("current_question_idx")
    /\ Field("current_question_idx") <= Len(Field("questions"))
    /\ Len(Field("question_responses")) = Field("current_question_idx")

\* every question of an interview has been skipped or answered
C1_Witness ==
    /\ Stage = "interview"
    /\ Field("questions") # <<>>
    /\ Field("current_question_idx") = Len(Field("questions"))
    /\ \E i \in 1..Len(Field("question_responses")) :
           Field("question_responses")[i].answer = SkipSentinel

\* C2: a script run in the interview stage with remaining = 0 ends in the
\* feedback stage and leaves question_responses, individual_feedback and
\* current_question_idx as they were, whatever event it carries.
C2_HardDeadline ==
    [][(Stage = "interview" /\ now' = now /\ TimerRunning /\ Remaining = 0)
          => /\ Stage' = "feedback"
             /\ Field("question_responses")' = Field("question_responses")
             /\ Field("individual_feedback")' = Field("individual_feedback")
             /\ Field("current_question_idx")' = Field("current_question_idx")
      ]_vars

\* a script run that carried a non-blank Submit ended in the feedback stage
\* with questions left unanswered
C2_Witness ==
    /\ event.kind = "submit"
    /\ Strip(event.text) # <<>>
    /\ rerun
    /\ Stage = "feedback"
    /\ Field("current_question_idx") < Len(Field("questions"))

\* C3: the stage goes from interview to feedback only in a script run that
\* carries the report request with every question recorded, or in one that
\* finds remaining = 0.
C3_FeedbackEntry ==
    [][(Stage = "interview" /\ Stage' = "feedback")
          => \/ /\ event'.kind = "report"
                /\ Field("current_question_idx") = Len(Field("questions"))
                /\ Len(Field("question_responses")) = Len(Field("questions"))
             \/ TimerRunning /\ Remaining = 0
      ]_vars

\* the feedback stage was entered by the report request
C3_Witness ==
    /\ event.kind = "report"
    /\ Stage = "feedback"
    /\ Len(Field("question_responses")) = Len(Field("questions"))

\* C4: the stage changes only from upload to details, from details to
\* interview, from interview to feedback, from feedback to details by
\* Practice Again or New Position, and from feedback to upload by Start Over.
C4_StageTransitions ==
    [][Stage' # Stage
          => \/ Stage = "upload" /\ Stage' = "details"
             \/ Stage = "details" /\ Stage' = "interview"
             \/ Stage = "interview" /\ Stage' = "feedback"
             \/ /\ Stage = "feedback"
                /\ Stage' = "details"
                /\ event'.kind \in {"practice_again", "new_position"}
             \/ /\ Stage = "feedback"
                /\ Stage' = "upload"
                /\ event'.kind = "start_over"
      ]_vars

\* Practice Again took the session from feedback back to details
C4_Witness ==
    /\ event.kind = "practice_again"
    /\ Stage = "details"
    /\ rerun

\* the last script run carried a valid job details form, so that it called
\* generate_questions, and the service raised
QuestionServiceFailed ==
    /\ event.kind = "details"
    /\ event.job_title # <<>>
    /\ event.company_name # <<>>
    /\ event.job_description # <<>>
    /\ Field("duration_selected")
    /\ event.reply.raised

C6_RefusedDetails ==
    [][(/\ Stage = "details"
        /\ ~rerun
        /\ now' = now
        /\ event'.kind = "details"
        /\ \/ event'.job_title = <<>>
           \/ event'.company_name = <<>>
           \/ event'.job_description = <<>>
           \/ ~Field("duration_selected"))
          => (ss' = ss /\ ~rerun')
      ]_vars

\* a complete form was refused because no duration was selected
C6_Witness ==
    /\ event.kind = "details"
    /\ event.job_title # <<>>
    /\ event.company_name # <<>>
    /\ event.job_description # <<>>
    /\ ~Field("duration_selected")
    /\ Stage = "details"

\* C7: in the interview stage job_details has a non-empty title, company
\* and description, a duration was selected and questions is not empty.
C7_InterviewRequires ==
    Stage = "interview"
        => /\ DOMAIN Field("job_details") # {}
           /\ Field("job_details").job_title # <<>>
           /\ Field("job_details").company_name # <<>>
           /\ Field("job_details").job_description # <<>>
           /\ Field("duration_selected")
           /\ Field("questions") # <<>>

\* the interview stage with the first question answered
C7_Witness ==
    /\ Stage = "interview"
    /\ Field("current_question_idx") = 1
    /\ Len(Field("individual_feedback")) = 1

\* the extraction x of the file fails or is too short
ExtractionFails(file, x) ==
    \/ file.size > max_size
    \/ x.raised
    \/ Len(Strip(x.text)) < MinResumeLen

\* C8: outside the upload stage resume_text has at least 50 characters, and
\* a script run of the upload stage whose extraction fails or is too short
\* leaves the stage and resume_text as they were.
C8_ResumeGuard ==
    [][/\ Stage' # "upload" => Len(Field("resume_text")') >= MinResumeLen
       /\ (/\ Stage = "upload"
           /\ now' = now
           /\ ~IsNone(uploaded_file')
           /\ ExtractionFails(uploaded_file', event'.extraction))
             => /\ Stage' = "upload"
                /\ Field("resume_text")' = Field("resume_text")
      ]_vars

\* the upload stage was left with a resume of exactly 50 characters
C8_Witness ==
    /\ event.kind = "continue"
    /\ Stage = "details"
    /\ Len(Field("resume_text")) = MinResumeLen

\* C9 as stated: in the feedback stage generate_overall_feedback has been
\* called for this interview and overall_feedback is set.
C9_ScoredOnEntry ==
    Stage = "feedback"
        => (score_calls >= 1 /\ Field("overall_feedback") # <<>>)

\* C10 as stated: generate_overall_feedback is called at most once in one
\* interview.
C10_ScoredAtMostOnce == score_calls <= 1

\* the session is in the interview stage and the deadline has not passed
BeforeDeadline == Stage = "interview" /\ ~(TimerRunning /\ Remaining = 0)

\* the text generate_overall_feedback returns when the service raised with
\* the given message
OverallPlaceholder(message) ==
    <<"Error generating comprehensive feedback: ">> \o message

\* the text generate_individual_feedback returns when the service raised
FeedbackPlaceholder ==
    <<"Unable to generate detailed feedback for this question.">>

\* C11: a report request before the deadline during which the service
\* raises still moves the session from interview to feedback, with
\* overall_feedback set to the non-empty failure placeholder.
C11_ReportFailureAbsorbed ==
    [][(/\ BeforeDeadline
        /\ now' = now
        /\ event'.kind = "report"
        /\ event'.reply.raised)
          => /\ Stage' = "feedback"
             /\ rerun'
             /\ Field("overall_feedback")' = OverallPlaceholder(event'.reply.text)
             /\ Field("overall_feedback")' # <<>>
      ]_vars

\* the report was requested, the service raised and the session is in the
\* feedback stage with the placeholder
C11_Witness ==
    /\ event.kind = "report"
    /\ event.reply.raised
    /\ Stage = "feedback"
    /\ Field("overall_feedback") = OverallPlaceholder(event.reply.text)

\* C12: a non-blank Submit before the deadline appends exactly one entry to
\* individual_feedback, with the number of the submitted question, and
\* advances current_question_idx by 1; when the service raises, the entry
\* holds the failure placeholder.
C12_SubmitFeedbackEntry ==
    [][(/\ BeforeDeadline
        /\ now' = now
        /\ event'.kind = "submit"
        /\ Strip(event'.text) # <<>>)
          => /\ Len(Field("individual_feedback")') =
                    Len(Field("individual_feedback")) + 1
             /\ SubSeq(Field("individual_feedback")', 1,
                       Len(Field("individual_feedback")))
                    = Field("individual_feedback")
             /\ Field("individual_feedback")'[Len(Field("individual_feedback")')]
                    .question_number = Field("current_question_idx") + 1
             /\ Field("current_question_idx")' =
                    Field("current_question_idx") + 1
             /\ Stage' = "interview"
             /\ event'.reply.raised
                  => Field("individual_feedback")'
                         [Len(Field("individual_feedback")')].feedback
                         = FeedbackPlaceholder
      ]_vars

\* an answer was submitted, the service raised and the placeholder is the
\* last entry of individual_feedback
C12_Witness ==
    /\ event.kind = "submit"
    /\ event.reply.raised
    /\ rerun
    /\ Field("individual_feedback") # <<>>
    /\ Field("individual_feedback")[Len(Field("individual_feedback"))].feedback
           = FeedbackPlaceholder
    /\ Field("current_question_idx") = 2

\* C13: in every state individual_feedback has at most as many entries as
\* question_responses.
C13_FeedbackAtMostResponses ==
    Len(Field("individual_feedback")) <= Len(Field("question_responses"))

\* a question was skipped and another answered: fewer entries of feedback
\* than responses
C13_Witness ==
    /\ Len(Field("individual_feedback")) = 1
    /\ Len(Field("question_responses")) = 2

\* the sequence p is a prefix of the sequence q
IsPrefix(p, q) == Len(p) <= Len(q) /\ SubSeq(q, 1, Len(p)) = p

\* the record of the question on display with the given answer
DisplayedRecord(answer) ==
    [question |-> Field("questions")[Field("current_question_idx") + 1],
     answer |-> answer,
     question_number |-> Field("current_question_idx") + 1]

\* C14: a non-blank Submit before the deadline appends exactly one record
\* to question_responses, whose answer is the text without its surrounding
\* white space and whose number is that of the question on display, and
\* advances current_question_idx by exactly 1.
C14_SubmitRecordsTrimmed ==
    [][(/\ BeforeDeadline
        /\ now' = now
        /\ event'.kind = "submit"
        /\ Strip(event'.text) # <<>>)
          => /\ Field("question_responses")' =
                    Append(Field("question_responses"),
                           DisplayedRecord(Strip(event'.text)))
             /\ Field("current_question_idx")' =
                    Field("current_question_idx") + 1
      ]_vars

\* an answer typed with surrounding white space was recorded without it
C14_Witness ==
    /\ event.kind = "submit"
    /\ rerun
    /\ Strip(event.text) # event.text
    /\ Field("question_responses") # <<>>
    /\ Field("question_responses")[Len(Field("question_responses"))].answer
           = Strip(event.text)

\* C15: a Skip before the deadline appends exactly one record to
\* question_responses, whose answer is the skip sentinel, advances
\* current_question_idx by exactly 1 and leaves individual_feedback as it
\* was.
C15_SkipRecordsSentinel ==
    [][(BeforeDeadline /\ now' = now /\ event'.kind = "skip")
          => /\ Field("question_responses")' =
                    Append(Field("question_responses"),
                           DisplayedRecord(SkipSentinel))
             /\ Field("current_question_idx")' =
                    Field("current_question_idx") + 1
             /\ Field("individual_feedback")' = Field("individual_feedback")
      ]_vars

\* a question was skipped after another was answered
C15_Witness ==
    /\ event.kind = "skip"
    /\ rerun
    /\ Len(Field("individual_feedback")) = 1
    /\ Len(Field("question_responses")) = 2
    /\ Field("question_responses")[2].answer = SkipSentinel

\* C16: in a step that is not a reset current_question_idx does not
\* decrease and question_responses before the step is a prefix of
\* question_responses after it.
C16_AppendOnly ==
    [][event'.kind \notin ResetKinds
          => /\ Field("current_question_idx")' >= Field("current_question_idx")
             /\ IsPrefix(Field("question_responses"),
                         Field("question_responses")')
      ]_vars

\* a second answer was recorded behind the first, which is as it was
C16_Witness ==
    /\ event.kind = "submit"
    /\ rerun
    /\ Len(Field("question_responses")) = 2
    /\ Field("question_responses")[1].question_number = 1
    /\ Field("question_responses")[2].question_number = 2

\* the fields of one interview have the values of a session with no
\* interview
InterviewCleared ==
    /\ Field("questions") = <<>>
    /\ Field("current_question_idx") = 0
    /\ Field("question_responses") = <<>>
    /\ Field("individual_feedback") = <<>>
    /\ Field("overall_feedback") = <<>>
    /\ ~Field("interview_completed")
    /\ IsNone(Field("timer"))
    /\ Field("question_timer_start") = NoTime

\* C17: Practice Again, pressed in the feedback stage, sets the stage to
\* details, clears questions, current_question_idx, question_responses,
\* individual_feedback, overall_feedback, interview_completed and the timer,
\* and leaves job_details, resume_text, the selected duration and
\* num_questions as they were.
C17_PracticeAgainReset ==
    [][(Stage = "feedback" /\ now' = now /\ event'.kind = "practice_again")
          => /\ Stage' = "details"
             /\ InterviewCleared'
             /\ Field("job_details")' = Field("job_details")
             /\ Field("resume_text")' = Field("resume_text")
             /\ Field("duration_selected")' = Field("duration_selected")
             /\ Field("interview_duration")' = Field("interview_duration")
             /\ Field("num_questions")' = Field("num_questions")
      ]_vars

\* Practice Again was pressed: the job details and the duration are kept
C17_Witness ==
    /\ event.kind = "practice_again"
    /\ rerun
    /\ Stage = "details"
    /\ Field("job_details") # EmptyDict
    /\ Field("duration_selected")
    /\ Len(Field("resume_text")) >= MinResumeLen

\* C18: New Position, pressed in the feedback stage, sets the stage to
\* details, clears what Practice Again clears and also job_details and the
\* duration selection (duration_selected false, interview_duration and
\* num_questions at their defaults), and leaves resume_text as it was.
C18_NewPositionReset ==
    [][(Stage = "feedback" /\ now' = now /\ event'.kind = "new_position")
          => /\ Stage' = "details"
             /\ InterviewCleared'
             /\ Field("job_details")' = EmptyDict
             /\ ~Field("duration_selected")'
             /\ Field("interview_duration")' = defaults.interview_duration
             /\ Field("num_questions")' = defaults.num_questions
             /\ Field("resume_text")' = Field("resume_text")
      ]_vars

\* New Position was pressed: the resume is kept, the job details are not
C18_Witness ==
    /\ event.kind = "new_position"
    /\ rerun
    /\ Stage = "details"
    /\ Field("job_details") = EmptyDict
    /\ Len(Field("resume_text")) >= MinResumeLen

\* C19: Start Over leaves every field but gemini_client at the value of a
\* new session and gemini_client as it was, and after the script run that
\* follows it the session equals a newly initialized one with the same
\* client, in the upload stage.
C19_StartOverReset ==
    [][/\ (Stage = "feedback" /\ now' = now /\ event'.kind = "start_over")
            => /\ \A key \in (DOMAIN defaults) \ {"gemini_client"} :
                      Field(key)' = defaults[key]
               /\ Field("gemini_client")' = Field("gemini_client")
               /\ Field("gemini_client")' # defaults.gemini_client
               /\ rerun'
       /\ (event.kind = "start_over" /\ rerun /\ now' = now)
            => /\ ss' = initialize_session_state(EmptyDict,
                                                 Field("gemini_client"))
               /\ ss'.stage = "upload"
               /\ IsNone(uploaded_file')
               /\ ~rerun'
      ]_vars

\* the script run after Start Over has ended: a new session with the first
\* client
C19_Witness ==
    /\ resets = 1
    /\ Stage = "upload"
    /\ event.kind = "none"
    /\ ss = initialize_session_state(EmptyDict, 1)
    /\ clients = 1

\* the numbers of questions the duration buttons offer
QuestionCounts ==
    { duration_options[i].questions : i \in 1..Len(duration_options) }

\* every duration button offers one question for five minutes and no more
\* questions than there are fallback questions, and generate_questions
\* returns that many questions for every reply of the service
NoShortfall ==
    \A i \in 1..Len(duration_options) :
        /\ duration_options[i].questions * 5 = duration_options[i].duration
        /\ duration_options[i].questions <= Len(fallback_questions)
        /\ \A reply \in QuestionReplies :
               Len(generate_questions(reply, duration_options[i].questions))
                   = duration_options[i].questions

\* C20: every step from the details stage into the interview stage ends with
\* exactly num_questions questions, current_question_idx = 0, no responses,
\* no individual feedback and interview_completed false; num_questions is
\* one of 3, 6, 9, 12, a fifth of the minutes, and generate_questions never
\* returns fewer questions than were asked for.
C20_InterviewEntry ==
    [][(Stage = "details" /\ Stage' = "interview")
          => /\ Len(Field("questions")') = Field("num_questions")'
             /\ Field("current_question_idx")' = 0
             /\ Field("question_responses")' = <<>>
             /\ Field("individual_feedback")' = <<>>
             /\ ~Field("interview_completed")'
             /\ Field("num_questions")' \in QuestionCounts
             /\ QuestionCounts = {3, 6, 9, 12}
             /\ Field("num_questions")' * 5 = Field("interview_duration")'
             /\ NoShortfall
      ]_vars

\* the interview stage was entered again after a reset, with questions read
\* from a reply of the service
C20_Witness ==
    /\ resets = 1
    /\ event.kind = "details"
    /\ ~event.reply.raised
    /\ rerun
    /\ Stage = "interview"
    /\ Len(Field("questions")) = Field("num_questions")
    /\ Field("questions") # get_fallback_questions(Field("num_questions"))

(***************************************************************************)
(* An InterviewTimer on its own.  timing holds the timer, the value of the *)
(* clock datetime.now() reads, and the operation applied last.  The clock  *)
(* is the wall clock: it can be set back.  Of every block of ClockStep     *)
(* units the first Resolution + 1 clock values are followed, which covers  *)
(* the fractions of a second that int() drops.                             *)
(***************************************************************************)
\* the largest clock value followed
ClockLimit == (MaxTicks + 1) * ClockStep + Resolution

\* the amounts by which the clock moves from the value c
ClockMoves(c) ==
    {ClockStep} \cup (IF c % ClockStep < Resolution THEN {1} ELSE {})

\* the amounts by which the clock is set back from the value c
ClockSetbacks(c) ==
    {ClockStep} \cup (IF c % ClockStep \in 1..Resolution THEN {1} ELSE {})

\* a timer as render_details_stage constructs it, at clock value 0
TimerInit ==
    /\ SessionInit
    /\ parsing = Idle
    /\ \E i \in 1..Min(MaxOption, Len(duration_options)) :
           timing = [pc |-> "timer",
                     timer |-> InterviewTimer(duration_options[i].duration),
                     clock |-> 0,
                     last |-> "new"]

\* time passes
ClockForward ==
    /\ \E step \in ClockMoves(timing.clock) :
           /\ timing.clock + step <= ClockLimit
           /\ timing' = [timing EXCEPT !.clock = @ + step, !.last = "clock"]
    /\ UNCHANGED <<session_vars, parsing>>

\* the wall clock is set back
ClockBack ==
    /\ \E step \in ClockSetbacks(timing.clock) :
           /\ timing.clock - step >= 0
           /\ timing' = [timing EXCEPT !.clock = @ - step, !.last = "clock"]
    /\ UNCHANGED <<session_vars, parsing>>

\* render_interview_stage reaches its start of the interview timer
RenderStart ==
    /\ timing' = [timing EXCEPT
                     !.timer = StartTimer([timer |-> @], timing.clock).timer,
                     !.last = "render"]
    /\ UNCHANGED <<session_vars, parsing>>

\* a call of the method start_interview
CallStartInterview ==
    /\ timing' = [timing EXCEPT !.timer = start_interview(@, timing.clock),
                                !.last = "call"]
    /\ UNCHANGED <<session_vars, parsing>>

\* a reset and a new interview: render_details_stage constructs a new timer
NewTimer ==
    /\ timing.timer.start_time # NoTime
    /\ timing' = [timing EXCEPT
                     !.timer = InterviewTimer(@.duration_seconds \div 60),
                     !.last = "new"]
    /\ UNCHANGED <<session_vars, parsing>>

TimerNext ==
    \/ ClockForward
    \/ ClockBack
    \/ RenderStart
    \/ CallStartInterview
    \/ NewTimer

TimerSpec == TimerInit /\ [][TimerNext]_vars

\* what get_remaining_time returns at the present clock value
TimerRemaining == get_remaining_time(timing.timer, timing.clock)

\* the value x kept within lo..hi
Clamp(x, lo, hi) == IF x < lo THEN lo ELSE IF x > hi THEN hi ELSE x

\* C21 as stated: get_remaining_time is the full duration D while the timer
\* is not started and else D - (now - start_time) kept within 0..D, in whole
\* seconds, also when now is earlier than start_time.
C21_RemainingClamped ==
    TimerRemaining =
        IF timing.timer.start_time = NoTime
        THEN timing.timer.duration_seconds
        ELSE Clamp(timing.timer.duration_seconds * Resolution
                       - (timing.clock - timing.timer.start_time),
                   0, timing.timer.duration_seconds * Resolution)
                 \div Resolution

\* C22: get_remaining_time is the duration right after start_interview, and
\* while the timer stays as it is and the clock does not go back it does
\* not increase, is not negative, is 0 once the duration has passed and
\* stays 0.
C22_RemainingMonotone ==
    [][/\ (timing'.last \in {"render", "call"}
           /\ timing'.timer # timing.timer)
            => TimerRemaining' = timing'.timer.duration_seconds
       /\ (/\ timing'.timer = timing.timer
           /\ timing.timer.start_time # NoTime
           /\ timing.clock >= timing.timer.start_time
           /\ timing'.clock >= timing.clock)
            => /\ TimerRemaining' <= TimerRemaining
               /\ TimerRemaining' >= 0
               /\ (timing'.clock - timing.timer.start_time
                       >= timing.timer.duration_seconds * Resolution)
                    => TimerRemaining' = 0
               /\ TimerRemaining = 0 => TimerRemaining' = 0
      ]_vars

\* the timer was read after its duration had passed, and a fraction of a
\* second later
C22_Witness ==
    /\ timing.pc = "timer"
    /\ timing.last = "clock"
    /\ timing.timer.start_time # NoTime
    /\ timing.clock > timing.timer.start_time
                          + timing.timer.duration_seconds * Resolution
    /\ TimerRemaining = 0

\* C23 as stated: once start_time is set, no call of start_interview
\* changes it before the timer is replaced.
C23_StartOnce ==
    [][(timing.timer.start_time # NoTime /\ timing'.last \in {"render", "call"})
          => timing'.timer.start_time = timing.timer.start_time
      ]_vars

\* C23 as amended: render_interview_stage calls start_interview only while
\* start_time is unset, so that it sets start_time to the clock value once
\* and leaves a set start_time as it is; the method start_interview itself
\* sets start_time to the clock value at every call.
C23_StartGuardedByCaller ==
    [][/\ (timing'.last = "render" /\ timing.timer.start_time # NoTime)
            => timing'.timer = timing.timer
       /\ (timing'.last = "render" /\ timing.timer.start_time = NoTime)
            => timing'.timer.start_time = timing.clock
       /\ timing'.last = "call"
            => timing'.timer.start_time = timing.clock
      ]_vars

\* render_interview_stage came to a timer started earlier and left it
C23_Witness ==
    /\ timing.pc = "timer"
    /\ timing.last = "render"
    /\ timing.timer.start_time # NoTime
    /\ timing.clock > timing.timer.start_time

(***************************************************************************)
(* generate_questions on its own, one step at a time: the reply of the     *)
(* service and the number of questions are drawn at the start, the try     *)
(* block looks for a JSON array, the loop examines one line per step, and  *)
(* the padding and the truncation end the call.                            *)
(***************************************************************************)
\* the longest text of which every variation is tried
MaxTextLen == 3

\* the largest number of questions asked for: one more than the fallback
\* questions
MaxNum == 13

\* the characters the JSON and the line rules give a meaning to
ParserAlphabet == {"[", "]", "\"", ",", "1", ".", "-", " ", "\n"}

ShortTexts == UNION { [1..k -> ParserAlphabet] : k \in 0..MaxTextLen }

\* a JSON array of k numbers
NumberList(k) ==
    <<"[", "1">> \o [i \in 1..2 * (k - 1) |-> IF i % 2 = 1 THEN "," ELSE "1"]
    \o <<"]">>

\* k lines of one bullet each
BulletLines(k) == [i \in 1..4 * k |-> <<"-", " ", "b", "\n">>[((i - 1) % 4) + 1]]

\* longer texts: a JSON array of four strings, alone, inside a markdown
\* fence and inside prose; an array of a number and an empty string; an
\* array with a missing quote; brackets around prose; lines of the four
\* kinds with numerals in and out of sequence; an array and a list of
\* bullets longer than the fallback questions; a numeral of two digits and
\* numerals with a leading zero
LongTexts ==
    LET four == <<"[", "\"", "a", "\"", ",", "\"", "b", "\"", ",",
                  "\"", "a", "b", "\"", ",", "\"", "b", "a", "\"", "]">>
    IN  { four,
          <<Backtick, Backtick, Backtick, "j", "\n">> \o four
              \o <<"\n", Backtick, Backtick, Backtick>>,
          <<"s", ":", " ">> \o four \o <<" ", "e", ".", "\n">>,
          <<"[", "1", ",", " ", "\"", "\"", "]">>,
          <<"[", "\"", "a", ",", "\"", "b", "\"", "]">>,
          <<"a", " ", "[", "b", "]", " ", "c">>,
          <<"1", ".", " ", "a", "\n", "3", ".", " ", "x", "\n",
            "-", " ", "b", "\n", "2", ".", " ", "y", "\n",
            " ", "\"", "c", "\"", ",", "\n", "4", ".", "d", "\n",
            "\"", "e", "\"">>,
          NumberList(MaxNum),
          BulletLines(MaxNum),
          BulletLines(9) \o <<"1", ".", " ", "x", "\n",
                              "1", "0", ".", " ", "a", "\n",
                              "0", "1", "1", ".", " ", "y", "\n",
                              "1", "1", ".">>,
          <<"0", "1", ".", " ", "a", "\n", "1", ".", "5", " ", "b">> }

\* what generate_content does for the questions prompt
ParserReplies ==
    {Raised(<<"e">>)} \cup { Said(t) : t \in ShortTexts \cup LongTexts }

ParserInit ==
    /\ SessionInit
    /\ timing = Idle
    /\ parsing \in { [pc |-> "call", reply |-> r, num_questions |-> n,
                      lines |-> <<>>, questions |-> <<>>, examined |-> 0,
                      path |-> "none", result |-> <<>>] :
                     r \in ParserReplies, n \in 1..MaxNum }

\* the end of the call: what it returns and on which path
Return(path, result) ==
    [parsing EXCEPT !.pc = "done", !.path = path, !.result = result]

\* the try block up to the loop: a decoded array ends the call, any other
\* text goes to the loop over its lines
AfterDecode(questions_text, slice, decoded) ==
    IF slice.found /\ decoded.ok
    THEN Return("decoded",
                FromDecoded(decoded.val.v, parsing.num_questions))
    ELSE [parsing EXCEPT !.pc = "scan", !.lines = Split(questions_text)]

AfterSlice(questions_text, slice) ==
    AfterDecode(questions_text, slice, JsonLoads(slice.json_text))

\* generate_content, the cleaning of the text and the search for an array;
\* an exception goes to the except branch
ParseReply ==
    /\ parsing.pc = "call"
    /\ parsing' =
         IF parsing.reply.raised
         THEN Return("except", get_fallback_questions(parsing.num_questions))
         ELSE AfterSlice(CleanText(parsing.reply.text),
                         JsonSlice(CleanText(parsing.reply.text)))
    /\ UNCHANGED <<session_vars, timing>>

\* one turn of the loop over the lines
ScanStep ==
    /\ parsing.pc = "scan"
    /\ parsing.lines # <<>>
    /\ parsing' = [parsing EXCEPT
                     !.questions = ScanLine(@, Head(parsing.lines)),
                     !.lines = Tail(@),
                     !.examined = @ + 1]
    /\ UNCHANGED <<session_vars, timing>>

\* the end of the loop: padding, truncation and return
PadAndReturn ==
    /\ parsing.pc = "scan"
    /\ parsing.lines = <<>>
    /\ parsing' = Return("scanned",
                         PadScanned(parsing.questions, parsing.num_questions))
    /\ UNCHANGED <<session_vars, timing>>

ParserNext == ParseReply \/ ScanStep \/ PadAndReturn

ParserSpec == ParserInit /\ [][ParserNext]_vars

\* the call returns what generate_questions gives for the reply and the
\* number of questions
ParserAgrees ==
    parsing.pc = "done"
    => parsing.result = generate_questions(parsing.reply,
                                           parsing.num_questions)

\* the reply is a text, and json.loads of what lies between the first "["
\* and the last "]" of the cleaned text
Bracketed == JsonSlice(CleanText(parsing.reply.text))

Decoded == JsonLoads(Bracketed.json_text)

DecodesToList == ~parsing.reply.raised /\ Bracketed.found /\ Decoded.ok

Returned == parsing.pc = "done"

\* C24: when the text between the brackets decodes to a list of at least N
\* items, generate_questions returns the first N decoded items in their
\* order and nothing else
C24_FirstDecoded ==
    Returned /\ DecodesToList /\ Len(Decoded.val.v) >= parsing.num_questions
    => /\ Len(parsing.result) = parsing.num_questions
       /\ \A i \in 1..parsing.num_questions :
             parsing.result[i] = Decoded.val.v[i]

\* a list of more items than asked for, of which two or more are returned
C24_Witness ==
    /\ Returned
    /\ DecodesToList
    /\ parsing.num_questions >= 2
    /\ Len(Decoded.val.v) > parsing.num_questions
    /\ parsing.path = "decoded"

\* C25 as stated: when the text between the brackets decodes to a list of
\* M < N items, the result has exactly N items, the M decoded items in
\* their order and then the first N - M fallback questions in their order
C25_PaddedToN ==
    Returned /\ DecodesToList /\ Len(Decoded.val.v) < parsing.num_questions
    => /\ Len(parsing.result) = parsing.num_questions
       /\ \A i \in 1..Len(Decoded.val.v) :
             parsing.result[i] = Decoded.val.v[i]
       /\ \A j \in 1..(parsing.num_questions - Len(Decoded.val.v)) :
             parsing.result[Len(Decoded.val.v) + j] = fallback_questions[j]

\* C25, amended: the M decoded items are followed by the first N - M
\* fallback questions, or by all of them when there are fewer than N - M, so
\* that the result has N items only when N - M is at most their number
C25_PaddedWhilePoolLasts ==
    Returned /\ DecodesToList /\ Len(Decoded.val.v) < parsing.num_questions
    => LET M == Len(Decoded.val.v)
           taken == IF parsing.num_questions - M <= Len(fallback_questions)
                    THEN parsing.num_questions - M
                    ELSE Len(fallback_questions)
       IN  /\ Len(parsing.result) = M + taken
           /\ \A i \in 1..M : parsing.result[i] = Decoded.val.v[i]
           /\ \A j \in 1..taken : parsing.result[M + j] = fallback_questions[j]

\* a decoded list of one item or more, padded with two fallback questions
\* or more
C25_Witness ==
    /\ Returned
    /\ DecodesToList
    /\ Len(Decoded.val.v) >= 1
    /\ Len(Decoded.val.v) + 2 <= parsing.num_questions
    /\ parsing.path = "decoded"

\* C26 as stated: for a text that holds no decodable list, the result has
\* exactly min(N, number of fallback questions) items
C26_PoolSizedResult ==
    Returned /\ ~parsing.reply.raised /\ ~DecodesToList
    => Len(parsing.result) =
         IF parsing.num_questions <= Len(fallback_questions)
         THEN parsing.num_questions
         ELSE Len(fallback_questions)

\* C26, amended: for a text that holds no decodable list the call returns
\* through the scan of the lines, and the result has N items, or, when N
\* exceeds them, the k accepted lines and all the fallback questions; when
\* the service raises, the result has min(N, number of fallback questions)
\* items; no other path ends the call
C26_NeverRaises ==
    Returned /\ ~DecodesToList
    => IF parsing.reply.raised
       THEN /\ parsing.path = "except"
            /\ Len(parsing.result) =
                 IF parsing.num_questions <= Len(fallback_questions)
                 THEN parsing.num_questions
                 ELSE Len(fallback_questions)
       ELSE /\ parsing.path = "scanned"
            /\ Len(parsing.result) =
                 IF parsing.num_questions
                      <= Len(parsing.questions) + Len(fallback_questions)
                 THEN parsing.num_questions
                 ELSE Len(parsing.questions) + Len(fallback_questions)

\* a text with brackets that do not decode, of which no line is accepted,
\* gives two fallback questions or more
C26_Witness ==
    /\ Returned
    /\ ~parsing.reply.raised
    /\ Bracketed.found
    /\ ~Decoded.ok
    /\ parsing.questions = <<>>
    /\ parsing.num_questions >= 2
    /\ Len(parsing.result) = parsing.num_questions

\* C27: every item of the returned list is a string that is not empty
C27_NonEmptyStrings ==
    Returned
    => \A i \in 1..Len(parsing.result) :
          parsing.result[i].t = "str" /\ parsing.result[i].v # <<>>

\* the digits a line starts with, and whether a full stop follows them
Numeral(line) == SubSeq(line, 1, SkipDigits(line, 1) - 1)

IsNumbered(line) ==
    /\ Numeral(line) # <<>>
    /\ Len(line) > Len(Numeral(line))
    /\ line[Len(Numeral(line)) + 1] = "."

\* C28: a turn of the line scan examines one line and goes on to the next;
\* it leaves the accepted items as they are or adds one at their end; and a
\* numbered line is accepted exactly when its numeral is the decimal
\* numeral of the number of items accepted so far plus one, the item being
\* what follows the full stop, trimmed
C28_NumeralInSequence ==
    [][parsing.pc = "scan" /\ parsing.lines # <<>>
       => LET line == Strip(Head(parsing.lines))
              k == Len(parsing.questions)
          IN  /\ parsing'.pc = "scan"
              /\ parsing'.lines = Tail(parsing.lines)
              /\ \/ parsing'.questions = parsing.questions
                 \/ /\ Len(parsing'.questions) = k + 1
                    /\ SubSeq(parsing'.questions, 1, k) = parsing.questions
              /\ IsNumbered(line)
                 => IF Numeral(line) = Decimal(k + 1)
                    THEN parsing'.questions =
                           Append(parsing.questions,
                                  JStr(Strip(SubSeq(line,
                                                    Len(Numeral(line)) + 2,
                                                    Len(line)))))
                    ELSE parsing'.questions = parsing.questions]_vars

\* six lines were examined: "1. a" was accepted, "3. x" was skipped, a
\* bullet was accepted, "2. y" was skipped, a quoted line was accepted, and
\* then "4.d" was accepted as the fourth item; a line remains
C28_Witness ==
    /\ parsing.pc = "scan"
    /\ parsing.examined = 6
    /\ parsing.lines # <<>>
    /\ parsing.questions =
         <<JStr(<<"a">>), JStr(<<"b">>), JStr(<<"c">>), JStr(<<"d">>)>>

\* C29: when the call returns after the scan of the lines with k accepted
\* items, the result is the first N of them when k >= N, and otherwise the
\* k items in their order followed by the first min(N - k, number of
\* fallback questions) fallback questions in their order, none of them twice
C29_AcceptedThenPool ==
    Returned /\ parsing.path = "scanned"
    => LET k == Len(parsing.questions)
           N == parsing.num_questions
           taken == IF k >= N THEN 0
                    ELSE IF N - k <= Len(fallback_questions) THEN N - k
                    ELSE Len(fallback_questions)
       IN  /\ Len(parsing.result) = IF k >= N THEN N ELSE k + taken
           /\ \A i \in 1..(IF k >= N THEN N ELSE k) :
                 parsing.result[i] = parsing.questions[i]
           /\ \A j \in 1..taken :
                 parsing.result[k + j] = fallback_questions[j]
           /\ \A i, j \in 1..taken :
                 i # j => parsing.result[k + i] # parsing.result[k + j]

\* the scan accepted at least one line and at least two fewer than asked
\* for, and the result ends with fallback questions
C29_Witness ==
    /\ Returned
    /\ parsing.path = "scanned"
    /\ Len(parsing.questions) >= 1
    /\ Len(parsing.questions) + 2 <= parsing.num_questions
    /\ Len(parsing.result) = parsing.num_questions

\* C30: a Submit before the deadline whose text is empty or white space
\* only changes nothing: question_responses, individual_feedback,
\* current_question_idx, interview_completed, the stage and the questions
\* are as before, as is the rest of the session; no feedback is asked for
\* and no rerun is requested, so the same question stays on display
C30_BlankSubmitRejected ==
    [][(/\ BeforeDeadline
        /\ now' = now
        /\ event'.kind = "submit"
        /\ Strip(event'.text) = <<>>)
          => /\ Field("question_responses")' = Field("question_responses")
             /\ Field("individual_feedback")' = Field("individual_feedback")
             /\ Field("current_question_idx")' =
                    Field("current_question_idx")
             /\ Field("interview_completed")' = Field("interview_completed")
             /\ Stage' = Stage
             /\ Field("questions")' = Field("questions")
             /\ ss' = ss
             /\ score_calls' = score_calls
             /\ ~rerun'
      ]_vars

\* an answer of white space only was submitted for the second question or a
\* later one, and that question is still on display
C30_Witness ==
    /\ event.kind = "submit"
    /\ event.text # <<>>
    /\ Strip(event.text) = <<>>
    /\ ~rerun
    /\ Stage = "interview"
    /\ Field("current_question_idx") >= 1
    /\ Field("current_question_idx") < Len(Field("questions"))
    /\ Len(Field("question_responses")) = Field("current_question_idx")

(***************************************************************************)
(* The claims on the completed flag, the frozen fields of an interview,    *)
(* the feedback page and the timer of a new interview.                     *)
(***************************************************************************)
\* every question of the interview has a response record
AllAnswered ==
    /\ Stage = "interview"
    /\ Field("questions") # <<>>
    /\ Field("current_question_idx") >= Len(Field("questions"))

\* C31: interview_completed is true in every state of the feedback stage;
\* in the interview stage with every question answered or skipped it is
\* true or a rerun is pending; and the script run that follows sets it
C31_CompletedFlag ==
    /\ [](Stage = "feedback" => Field("interview_completed"))
    /\ [](AllAnswered /\ ~Field("interview_completed") => rerun)
    /\ [][AllAnswered /\ now' = now => Field("interview_completed")']_vars

\* the last question was skipped, the rerun took place, the stage is still
\* the interview and interview_completed is true
C31_Witness ==
    /\ AllAnswered
    /\ ~rerun
    /\ Field("interview_completed")
    /\ Field("question_responses")[Len(Field("question_responses"))].answer
           = SkipSentinel

\* the step is a script run that carries one of the three resets
ResetRun == now' = now /\ event'.kind \in ResetKinds

\* C32: from a state of the interview or the feedback stage, a step that is
\* not a reset leaves the questions, job_details and the timer's
\* duration_seconds as they are, and leaves start_time as it is once it is
\* set
C32_FrozenFields ==
    [][(Stage \in {"interview", "feedback"} /\ ~ResetRun)
          => /\ Field("questions")' = Field("questions")
             /\ Field("job_details")' = Field("job_details")
             /\ ~IsNone(Field("timer"))
             /\ ~IsNone(Field("timer")')
             /\ Field("timer")'.duration_seconds
                    = Field("timer").duration_seconds
             /\ (TimerRunning
                   => Field("timer")'.start_time = Field("timer").start_time)
      ]_vars

\* the feedback stage of an interview with responses, at a clock value
\* later than the start of its timer
C32_Witness ==
    /\ Stage = "feedback"
    /\ TimerRunning
    /\ now > Field("timer").start_time
    /\ Field("questions") # <<>>
    /\ Field("question_responses") # <<>>
    /\ Field("job_details") # EmptyDict

\* what a script run carrying the click of a reset button would do now
ResetClick(kind) == main(ss, now, [kind |-> kind], uploaded_file, clients + 1)

\* the button of the reset is on the page and takes the session out of the
\* feedback stage
ResetOffered(kind) ==
    /\ ResetClick(kind).rerun
    /\ (IF "stage" \in DOMAIN ResetClick(kind).s
        THEN ResetClick(kind).s.stage
        ELSE defaults.stage) \in {"details", "upload"}

\* C33: in every state of the feedback stage at least one of the three
\* resets is offered
C33_ResetOffered ==
    Stage = "feedback" => \E kind \in ResetKinds : ResetOffered(kind)

\* render_feedback_stage: the individual analysis, one expander for each
\* response, with the feedback entry of the same position when there is one
IndividualAnalysis ==
    [i \in 1..Len(Field("question_responses")) |->
        [response |-> Field("question_responses")[i],
         available |-> i <= Len(Field("individual_feedback")),
         feedback |-> IF i <= Len(Field("individual_feedback"))
                      THEN Field("individual_feedback")[i]
                      ELSE [question_number |-> 0, feedback |-> <<>>]]]

\* C34: in the report of the feedback stage, the feedback entry shown with
\* a response has the question number of that response
C34_FeedbackPairing ==
    Stage = "feedback"
    => \A i \in 1..Len(IndividualAnalysis) :
          IndividualAnalysis[i].available
          => IndividualAnalysis[i].feedback.question_number
                = IndividualAnalysis[i].response.question_number

(***************************************************************************)
(* The program with script runs that a newly arriving user event stops:    *)
(* the run of a Submit is stopped where it shows or removes the spinner    *)
(* of the feedback call, and what it wrote to st.session_state stays.      *)
(***************************************************************************)
\* the most script runs stopped in one behaviour
MaxAborts == 1

\* where the run of a Submit can be stopped before it advances
\* current_question_idx
StopPoints == {"call", "exit"}

\* the session at the start of a script run, with its interview timer
RunStart == StartTimer(initialize_session_state(ss, clients + 1), now)

\* a script run carrying a non-blank Submit is stopped by the next event
SubmitAborted ==
    /\ QuestionShown
    /\ aborts < MaxAborts
    /\ ~DeadlineReached(RunStart, now)
    /\ \E text \in AnswerTexts, reply \in FeedbackReplies, stop \in StopPoints :
          /\ Strip(text) # <<>>
          /\ ss' = SubmitAnswerStopped(StartQuestionTimer(RunStart, now),
                                       [kind |-> "submit", text |-> text,
                                        reply |-> reply],
                                       stop)
          /\ event' = [kind |-> "stopped", text |-> text, reply |-> reply,
                       stop |-> stop]
    /\ rerun' = FALSE
    /\ continue_shown' = FALSE
    /\ uploaded_file' = None
    /\ aborts' = aborts + 1
    /\ UNCHANGED <<now, ticks, score_calls, resets, clients, timing, parsing>>

AbortNext ==
    \/ Tick
    \/ Rerun
    \/ Poll
    \/ UploadFile
    \/ RemoveFile
    \/ ContinueToDetails
    \/ ChooseDuration
    \/ SubmitDetails
    \/ Submit
    \/ Skip
    \/ GetReport
    \/ GenerateOverallFeedback
    \/ PracticeAgainButton
    \/ NewPositionButton
    \/ StartOverButton
    \/ SubmitAborted

SpecAbort == Init /\ [][AbortNext]_vars

\* C35: with script runs of a Submit that are stopped before
\* current_question_idx is advanced, the number of response records is
\* still current_question_idx and no two records have the same question
\* number
C35_SubmitAtomic ==
    /\ Len(Field("question_responses")) = Field("current_question_idx")
    /\ \A i, j \in 1..Len(Field("question_responses")) :
          i # j => Field("question_responses")[i].question_number
                      # Field("question_responses")[j].question_number

\* C36: the script run that enters the interview stage leaves a timer that
\* is not started, of the duration selected, whose remaining time is that
\* whole duration; and the first script run of the interview stage starts
\* it at the present clock value and stays in the interview stage with the
\* whole duration remaining
C36_FreshTimer ==
    /\ [][(Stage = "details" /\ Stage' = "interview")
            => /\ ~IsNone(Field("timer")')
               /\ Field("timer")'.start_time = NoTime
               /\ Field("timer")'.duration_seconds
                      = Field("interview_duration")' * 60
               /\ get_remaining_time(Field("timer")', now')
                      = Field("interview_duration")' * 60
         ]_vars
    /\ [][(/\ Stage = "interview"
           /\ ~IsNone(Field("timer"))
           /\ Field("timer").start_time = NoTime
           /\ now' = now)
            => /\ Stage' = "interview"
               /\ Field("timer")'.start_time = now
               /\ get_remaining_time(Field("timer")', now)
                      = Field("interview_duration") * 60
         ]_vars

\* an interview entered after a reset, at a clock value at which a timer
\* started with the first interview would have run out: its timer was
\* started then and its whole duration remains
C36_Witness ==
    /\ resets >= 1
    /\ Stage = "interview"
    /\ ~rerun
    /\ TimerRunning
    /\ Field("timer").start_time = now
    /\ now >= duration_options[1].duration * 60 * Resolution
    /\ Remaining = Field("interview_duration") * 60

=============================================================================
